---- MODULE Spec2Model ----
(***************************************************************************)
(* The single-slot model lifecycle of the LLM deployment service:          *)
(* ModelManager (model_manager.py) driven by the FastAPI handlers of       *)
(* api_routes.py.  The handlers run on one asyncio event loop (each        *)
(* handler body is one step); load_model_sync runs on the single worker    *)
(* thread of the ThreadPoolExecutor, one step per backend call or write of *)
(* a slot field, interleaved with the handlers.                            *)
(***************************************************************************)
EXTENDS Integers, Sequences, FiniteSets, TLC

VARIABLES model, tokenizer, generator, model_name, is_loading,
          queue, workerPc, task, done, accepted, loop, last

slot == <<model, tokenizer, generator, model_name, is_loading>>
vars == <<model, tokenizer, generator, model_name, is_loading,
          queue, workerPc, task, done, accepted, loop, last>>

\* ---------------------------------------------------------------- bounds
MaxDeploys == 2
MaxPrompt == 3
MaxCont == 3
MaxName == 3

\* ------------------------------------------------------------- constants
None == <<>>
Gpt2 == <<"g", "p", "t", "2">>
GptOss20b == <<"o", "p", "e", "n", "a", "i", "/", "g", "p", "t", "-", "o", "s", "s", "-", "2", "0", "b">>
ModelNames == {Gpt2, GptOss20b}
Chars == {"a", " "}
Whitespace == {" "}

MsgLoading == "Model is currently loading. Please wait."
MsgAlreadyLoaded == "Model is already loaded. Use /undeploy to unload first."
MsgNoModelQuery == "No model is currently loaded. Please deploy a model first."
MsgNoModelUndeploy == "No model is currently loaded."
MsgNotProperlyLoaded == "Generation error: Model or tokenizer not properly loaded."
MsgValidationError == "validation error: model_name"
MsgUndeployed == "Model undeployed successfully"

max_workers_Two == 1 + 1

\* ThreadPoolExecutor(max_workers=1)
max_workers == 1
Workers == 1..max_workers

\* One load_model_sync call submitted to the executor: its arguments, and
\* the number of from_pretrained requests it has made for the tokenizer and
\* for the model weights.
LoadArgs(id, name, device, load_in_8bit, load_in_4bit, trust_remote_code, hf_token) ==
    [id |-> id, name |-> name, device |-> device,
     load_in_8bit |-> load_in_8bit, load_in_4bit |-> load_in_4bit,
     trust_remote_code |-> trust_remote_code, hf_token |-> hf_token,
     tokenizer_requests |-> 0, model_requests |-> 0]

NoTask == LoadArgs(0, None, None, FALSE, FALSE, FALSE, None)
AllIdle == [w \in Workers |-> "idle"]
NoTasks == [w \in Workers |-> NoTask]
Busy == {w \in Workers : workerPc[w] # "idle"}

\* The event loop thread: idle, or inside the handler it is executing.  A
\* handler is a coroutine and runs without interruption by another handler
\* up to its next await; only deploy_model has one.
Idle == [handler |-> "idle"]

LoopFree_Always == TRUE


LoopFree == loop.handler = "idle"

Texts(n) == UNION {[1..k -> Chars] : k \in 0..n}

\* ModelManager.get_device: the preference is ignored
get_device(device_preference) == "cpu"

\* ModelManager.__init__ and the module-level executor
Init ==
    /\ model = None
    /\ tokenizer = None
    /\ generator = None
    /\ model_name = None
    /\ is_loading = FALSE
    /\ queue = <<>>
    /\ workerPc = AllIdle
    /\ task = NoTasks
    /\ done = {}
    /\ accepted = 0
    /\ loop = Idle
    /\ last = [op |-> "init", code |-> 0, detail |-> "", body |-> [x |-> 0]]

\* ------------------------------------------------ POST /deploy (handler)
DeployCheck_NoLoadingCheck ==
    IF model # None \/ generator # None THEN MsgAlreadyLoaded ELSE "ok"

DeployCheck_NoLoadedCheck ==
    IF is_loading THEN MsgLoading ELSE "ok"

\* The two precondition checks of deploy_model, in the order of the code.
DeployCheck ==
    IF is_loading THEN MsgLoading
    ELSE IF model # None \/ generator # None THEN MsgAlreadyLoaded
    ELSE "ok"

\* The part of deploy_model up to the await: checks, set_model_name and
\* the submission of load_model_sync to the executor.
Deploy(name, device_preference) ==
    /\ LoopFree
    /\ IF DeployCheck # "ok"
       THEN /\ last' = [op |-> "deploy", code |-> 400, detail |-> DeployCheck,
                        body |-> [x |-> 0]]
            /\ UNCHANGED <<slot, queue, workerPc, task, done, accepted, loop>>
       ELSE /\ accepted < MaxDeploys
            /\ model_name' = name
            /\ accepted' = accepted + 1
            /\ queue' = Append(queue, LoadArgs(accepted + 1, name,
                                                get_device(device_preference),
                                                FALSE, FALSE, TRUE, None))
            /\ last' = [op |-> "deploy", code |-> 0, detail |-> "submitted",
                        body |-> [id |-> accepted + 1]]
            /\ UNCHANGED <<model, tokenizer, generator, is_loading,
                           workerPc, task, done, loop>>

DeployReturn_AnswersFailure ==
    \E f \in done :
        /\ LoopFree
        /\ done' = done \ {f}
        /\ last' = [op |-> "deploy_return", code |-> 200, detail |-> "loading",
                    body |-> [model_name |-> f.name, device |-> f.device, id |-> f.id]]
        /\ UNCHANGED <<slot, queue, workerPc, task, accepted, loop>>

\* deploy_model after the await: the future of the load has completed; a
\* result gives the 200 answer, an exception propagates as a 500.
DeployReturn ==
    \E f \in done :
        /\ LoopFree
        /\ done' = done \ {f}
        /\ last' = IF f.result = "ok"
                   THEN [op |-> "deploy_return", code |-> 200, detail |-> "loading",
                         body |-> [model_name |-> f.name, device |-> f.device, id |-> f.id]]
                   ELSE [op |-> "deploy_return", code |-> 500, detail |-> "Internal Server Error",
                         body |-> [model_name |-> f.name, device |-> f.device, id |-> f.id]]
        /\ UNCHANGED <<slot, queue, workerPc, task, accepted, loop>>

\* ------------------------------------- load_model_sync (worker thread)
\* str.lower() on the letters that occur in the identifiers and error texts
Lower(c) ==
    CASE c = "B" -> "b"
      [] c = "G" -> "g"
      [] c = "M" -> "m"
      [] c = "O" -> "o"
      [] c = "P" -> "p"
      [] c = "S" -> "s"
      [] c = "T" -> "t"
      [] c = "W" -> "w"
      [] OTHER -> c

ToLower(s) == [i \in 1..Len(s) |-> Lower(s[i])]

\* Python's "sub in s"
Contains(s, sub) ==
    \E i \in 0..(Len(s) - Len(sub)) : SubSeq(s, i + 1, i + Len(sub)) = sub

large_indicators ==
    {<<"2", "0", "b">>, <<"g", "p", "t", "-", "o", "s", "s">>,
     <<"7", "0", "b">>, <<"1", "7", "5", "b">>}

\* utils.is_large_model
is_large_model(name) ==
    \E indicator \in large_indicators : Contains(ToLower(name), indicator)

QuantFlags_KeepsCaller(t, deps) ==
    IF (t.load_in_8bit \/ t.load_in_4bit) /\ ~deps
    THEN [is_large_model_flag |-> is_large_model(t.name),
          load_in_8bit |-> FALSE, load_in_4bit |-> FALSE]
    ELSE [is_large_model_flag |-> is_large_model(t.name),
          load_in_8bit |-> t.load_in_8bit, load_in_4bit |-> t.load_in_4bit]

\* The quantization flags after the large-model override and the check of
\* the quantization dependencies (deps: accelerate and bitsandbytes import).
QuantFlags(t, deps) ==
    LET large == is_large_model(t.name)
        l8 == IF large THEN FALSE ELSE t.load_in_8bit
        l4 == IF large THEN FALSE ELSE t.load_in_4bit
    IN  IF (l8 \/ l4) /\ ~deps
        THEN [is_large_model_flag |-> large, load_in_8bit |-> FALSE, load_in_4bit |-> FALSE]
        ELSE [is_large_model_flag |-> large, load_in_8bit |-> l8, load_in_4bit |-> l4]

TokenKwargs(t) == IF t.hf_token # None THEN [token |-> t.hf_token] ELSE <<>>

\* tokenizer_kwargs of the first and of the fallback tokenizer request
TokenizerKwargs(t, fallback) ==
    [trust_remote_code |-> t.trust_remote_code]
        @@ TokenKwargs(t)
        @@ (IF fallback THEN [use_fast |-> FALSE] ELSE <<>>)

\* model_kwargs of the first model request
ModelKwargs(t) ==
    [trust_remote_code |-> t.trust_remote_code, device_map |-> None,
     low_cpu_mem_usage |-> TRUE]
        @@ (IF is_large_model(t.name)
            THEN [torch_dtype |-> "float32", offload_folder |-> "offload"]
            ELSE <<>>)
        @@ TokenKwargs(t)

FallbackKwargs_KeepsOptions(t) == ModelKwargs(t)

\* fallback_kwargs of the second model request
FallbackKwargs(t) ==
    [trust_remote_code |-> t.trust_remote_code, device_map |-> None] @@ TokenKwargs(t)

\* pipeline_kwargs without the two handles
PipelineKwargs(t) ==
    [device |-> "cpu"]
        @@ (IF is_large_model(t.name)
            THEN [model_kwargs |-> [low_cpu_mem_usage |-> TRUE]]
            ELSE <<>>)

NoInfo == [x |-> 0]

\* ---- utils.format_error_message
ModelWrapper ==
    <<"M", "o", "d", "e", "l", "W", "r", "a", "p", "p", "e", "r">>
TokenizerWord ==
    <<"t", "o", "k", "e", "n", "i", "z", "e", "r">>
OutOfMemoryWords ==
    <<"o", "u", "t", " ", "o", "f", " ", "m", "e", "m", "o", "r", "y">>
OomWord == <<"o", "o", "m">>

\* The two blocks of suggestions, each taken as one symbol of the message
TokenizerSuggestions == <<"GPT-OSS-20B Compatibility Issue / alternative models">>
MemorySuggestions == <<"Memory optimization suggestions">>

format_error_message_BothBlocks(error) ==
    error \o (IF Contains(error, ModelWrapper) \/ Contains(ToLower(error), TokenizerWord)
              THEN TokenizerSuggestions ELSE <<>>)
          \o (IF Contains(ToLower(error), OutOfMemoryWords) \/ Contains(ToLower(error), OomWord)
              THEN MemorySuggestions ELSE <<>>)

format_error_message(error) ==
    IF Contains(error, ModelWrapper) \/ Contains(ToLower(error), TokenizerWord)
    THEN error \o TokenizerSuggestions
    ELSE IF Contains(ToLower(error), OutOfMemoryWords) \/ Contains(ToLower(error), OomWord)
    THEN error \o MemorySuggestions
    ELSE error

\* str(e) of the AttributeError raised by a use of a handle that is None
NoneTypeError(attr) ==
    <<"'", "N", "o", "n", "e", "T", "y", "p", "e", "'", " ", "o", "b", "j", "e", "c",
      "t", " ", "h", "a", "s", " ", "n", "o", " ", "a", "t", "t", "r", "i", "b", "u",
      "t", "e", " ", "'">> \o attr \o <<"'">>

\* Error texts of the backend in the lifecycle specification: a plain one,
\* one about the tokenizer and one about memory.
ErrPlain ==
    <<"n", "o", "t", " ", "f", "o", "u", "n", "d">>
ErrTokenizer ==
    <<"T", "o", "k", "e", "n", "i", "z", "e", "r", " ", "c", "l", "a", "s", "s", " ",
      "m", "i", "s", "s", "i", "n", "g">>
ErrMemory ==
    <<"C", "P", "U", " ", "o", "u", "t", " ", "o", "f", " ", "m", "e", "m", "o", "r",
      "y">>
BackendErrors == {ErrPlain, ErrTokenizer, ErrMemory}

\* ---- the tokenizer handle: the identifier it was loaded for and its
\* padding and end-of-sequence tokens
Tokenizer(name, pad, eos) == <<name, pad, eos>>
pad_token(t) == t[2]
eos_token(t) == t[3]
PadTokens == {None, <<"[PAD]">>}
EosTokens == {None, <<"</s>">>}

WorkerStep(w, pc, detail, t, info) ==
    /\ workerPc' = [workerPc EXCEPT ![w] = pc]
    /\ last' = [op |-> "worker", code |-> 0, detail |-> detail,
                body |-> [id |-> t.id, model_name |-> t.name, info |-> info,
                          tokenizer_requests |-> t.tokenizer_requests,
                          model_requests |-> t.model_requests]]

LoadFail_KeepsFlag(w, step, t, info, e) ==
    /\ is_loading' = is_loading
    /\ done' = done \cup {[id |-> t.id, name |-> t.name,
                           device |-> t.device, result |-> "error"]}
    /\ workerPc' = [workerPc EXCEPT ![w] = "idle"]
    /\ task' = [task EXCEPT ![w] = NoTask]
    /\ last' = [op |-> "load_failed", code |-> 0, detail |-> step,
                body |-> [id |-> t.id, model_name |-> t.name, info |-> info,
                          tokenizer_requests |-> t.tokenizer_requests,
                          model_requests |-> t.model_requests,
                          error |-> e, message |-> format_error_message(e)]]

\* The except clause of load_model_sync: reset the flag and re-raise with
\* the formatted message.  t is the call at the failure, e the text of the
\* exception caught.
LoadFail(w, step, t, info, e) ==
    /\ is_loading' = FALSE
    /\ done' = done \cup {[id |-> t.id, name |-> t.name,
                           device |-> t.device, result |-> "error"]}
    /\ workerPc' = [workerPc EXCEPT ![w] = "idle"]
    /\ task' = [task EXCEPT ![w] = NoTask]
    /\ last' = [op |-> "load_failed", code |-> 0, detail |-> step,
                body |-> [id |-> t.id, model_name |-> t.name, info |-> info,
                          tokenizer_requests |-> t.tokenizer_requests,
                          model_requests |-> t.model_requests,
                          error |-> e, message |-> format_error_message(e)]]

\* The running call after one more tokenizer or model request
TokenizerRequested(t) == [t EXCEPT !.tokenizer_requests = @ + 1]
ModelRequested(t) == [t EXCEPT !.model_requests = @ + 1]

\* An idle worker of the pool takes the next submitted load and enters its
\* body: the flag is raised and the quantization flags are settled.
LoadBegin(w, deps) ==
    /\ workerPc[w] = "idle"
    /\ queue # <<>>
    /\ task' = [task EXCEPT ![w] = Head(queue)]
    /\ queue' = Tail(queue)
    /\ is_loading' = TRUE
    /\ WorkerStep(w, "tokenizer", "begin", Head(queue), QuantFlags(Head(queue), deps))
    /\ UNCHANGED <<model, tokenizer, generator, model_name, done, accepted, loop>>

\* AutoTokenizer.from_pretrained, fast tokenizer; its exception is logged
\* and dropped
LoadTokenizer(w, ok) ==
    /\ workerPc[w] = "tokenizer"
    /\ task' = [task EXCEPT ![w] = TokenizerRequested(@)]
    /\ IF ok THEN /\ \E pad \in PadTokens, eos \in EosTokens :
                        tokenizer' = Tokenizer(task[w].name, pad, eos)
                  /\ WorkerStep(w, "pad_token", "tokenizer", TokenizerRequested(task[w]),
                                TokenizerKwargs(task[w], FALSE))
             ELSE /\ tokenizer' = tokenizer
                  /\ WorkerStep(w, "tokenizer_slow", "tokenizer_failed",
                                TokenizerRequested(task[w]),
                                TokenizerKwargs(task[w], FALSE))
    /\ UNCHANGED <<model, generator, model_name, is_loading, queue, done, accepted, loop>>

LoadTokenizerSlow_Retries(w, ok, e) ==
    /\ workerPc[w] = "tokenizer_slow"
    /\ task' = [task EXCEPT ![w] = TokenizerRequested(@)]
    /\ IF ok THEN /\ \E pad \in PadTokens, eos \in EosTokens :
                        tokenizer' = Tokenizer(task[w].name, pad, eos)
                  /\ WorkerStep(w, "pad_token", "tokenizer_slow",
                                TokenizerRequested(task[w]),
                                TokenizerKwargs(task[w], TRUE))
             ELSE /\ tokenizer' = tokenizer
                  /\ WorkerStep(w, "tokenizer_slow", "tokenizer_failed",
                                TokenizerRequested(task[w]),
                                TokenizerKwargs(task[w], TRUE))
    /\ UNCHANGED <<model, generator, model_name, is_loading, queue, done, accepted, loop>>

LoadTokenizerSlow_GoesOn(w, ok, e) ==
    /\ workerPc[w] = "tokenizer_slow"
    /\ task' = [task EXCEPT ![w] = TokenizerRequested(@)]
    /\ IF ok THEN /\ \E pad \in PadTokens, eos \in EosTokens :
                        tokenizer' = Tokenizer(task[w].name, pad, eos)
                  /\ WorkerStep(w, "pad_token", "tokenizer_slow",
                                TokenizerRequested(task[w]),
                                TokenizerKwargs(task[w], TRUE))
             ELSE /\ tokenizer' = tokenizer
                  /\ WorkerStep(w, "model", "tokenizer_failed",
                                TokenizerRequested(task[w]),
                                TokenizerKwargs(task[w], TRUE))
    /\ UNCHANGED <<model, generator, model_name, is_loading, queue, done, accepted, loop>>

\* AutoTokenizer.from_pretrained with use_fast=False, the one fallback; its
\* exception reaches the except clause
LoadTokenizerSlow(w, ok, e) ==
    /\ workerPc[w] = "tokenizer_slow"
    /\ IF ok THEN /\ \E pad \in PadTokens, eos \in EosTokens :
                        tokenizer' = Tokenizer(task[w].name, pad, eos)
                  /\ task' = [task EXCEPT ![w] = TokenizerRequested(@)]
                  /\ WorkerStep(w, "pad_token", "tokenizer_slow",
                                TokenizerRequested(task[w]),
                                TokenizerKwargs(task[w], TRUE))
                  /\ UNCHANGED <<is_loading, done>>
             ELSE /\ tokenizer' = tokenizer
                  /\ LoadFail(w, "tokenizer", TokenizerRequested(task[w]),
                              TokenizerKwargs(task[w], TRUE), e)
    /\ UNCHANGED <<model, generator, model_name, queue, accepted, loop>>

LoadPadToken_NoAlias(w) ==
    /\ workerPc[w] = "pad_token"
    /\ IF tokenizer # None
       THEN /\ tokenizer' = tokenizer
            /\ WorkerStep(w, "model", "pad_token", task[w],
                          [pad_token |-> pad_token(tokenizer),
                           eos_token |-> eos_token(tokenizer)])
            /\ UNCHANGED <<is_loading, task, done>>
       ELSE /\ tokenizer' = tokenizer
            /\ LoadFail(w, "pad_token", task[w], NoInfo, NoneTypeError(<<"pad_token">>))
    /\ UNCHANGED <<model, generator, model_name, queue, accepted, loop>>

\* if self.tokenizer.pad_token is None: self.tokenizer.pad_token =
\* self.tokenizer.eos_token, on the tokenizer the slot holds at that moment
LoadPadToken(w) ==
    /\ workerPc[w] = "pad_token"
    /\ IF tokenizer # None
       THEN /\ tokenizer' = IF pad_token(tokenizer) = None
                            THEN Tokenizer(tokenizer[1], eos_token(tokenizer),
                                           eos_token(tokenizer))
                            ELSE tokenizer
            /\ WorkerStep(w, "model", "pad_token", task[w],
                          [pad_token |-> pad_token(tokenizer),
                           eos_token |-> eos_token(tokenizer)])
            /\ UNCHANGED <<is_loading, task, done>>
       ELSE /\ tokenizer' = tokenizer
            /\ LoadFail(w, "pad_token", task[w], NoInfo, NoneTypeError(<<"pad_token">>))
    /\ UNCHANGED <<model, generator, model_name, queue, accepted, loop>>

\* AutoModelForCausalLM.from_pretrained with the full options; its
\* exception is logged and dropped
LoadModel(w, ok) ==
    /\ workerPc[w] = "model"
    /\ task' = [task EXCEPT ![w] = ModelRequested(@)]
    /\ IF ok THEN /\ model' = task[w].name
                  /\ WorkerStep(w, "to_cpu", "model", ModelRequested(task[w]),
                                ModelKwargs(task[w]))
             ELSE /\ model' = model
                  /\ WorkerStep(w, "model_fallback", "model_failed",
                                ModelRequested(task[w]), ModelKwargs(task[w]))
    /\ UNCHANGED <<tokenizer, generator, model_name, is_loading, queue, done, accepted, loop>>

\* AutoModelForCausalLM.from_pretrained with the minimal options
LoadModelFallback(w, ok, e) ==
    /\ workerPc[w] = "model_fallback"
    /\ IF ok THEN /\ model' = task[w].name
                  /\ task' = [task EXCEPT ![w] = ModelRequested(@)]
                  /\ WorkerStep(w, "to_cpu", "model_fallback", ModelRequested(task[w]),
                                FallbackKwargs(task[w]))
                  /\ UNCHANGED <<is_loading, done>>
             ELSE /\ model' = model
                  /\ LoadFail(w, "model", ModelRequested(task[w]),
                              FallbackKwargs(task[w]), e)
    /\ UNCHANGED <<tokenizer, generator, model_name, queue, accepted, loop>>

\* self.model = self.model.to("cpu"): fails when the slot's model is gone
LoadToCpu(w, ok, e) ==
    /\ workerPc[w] = "to_cpu"
    /\ IF ok /\ model # None
       THEN /\ WorkerStep(w, "pipeline", "to_cpu", task[w], NoInfo)
            /\ UNCHANGED <<is_loading, task, done>>
       ELSE LoadFail(w, "to_cpu", task[w], NoInfo,
                     IF model = None THEN NoneTypeError(<<"t", "o">>) ELSE e)
    /\ UNCHANGED <<model, tokenizer, generator, model_name, queue, accepted, loop>>

\* self.generator = pipeline("text-generation", ...)
LoadPipeline(w, ok, e) ==
    /\ workerPc[w] = "pipeline"
    /\ IF ok THEN /\ generator' = task[w].name
                  /\ WorkerStep(w, "finish", "pipeline", task[w], PipelineKwargs(task[w]))
                  /\ UNCHANGED <<is_loading, task, done>>
             ELSE /\ generator' = generator
                  /\ LoadFail(w, "pipeline", task[w], PipelineKwargs(task[w]), e)
    /\ UNCHANGED <<model, tokenizer, model_name, queue, accepted, loop>>

\* the success exit: self.is_loading = False and the function returns
LoadFinish(w) ==
    /\ workerPc[w] = "finish"
    /\ is_loading' = FALSE
    /\ done' = done \cup {[id |-> task[w].id, name |-> task[w].name,
                           device |-> task[w].device, result |-> "ok"]}
    /\ workerPc' = [workerPc EXCEPT ![w] = "idle"]
    /\ task' = [task EXCEPT ![w] = NoTask]
    /\ last' = [op |-> "load_ok", code |-> 0, detail |-> "ok",
                body |-> [id |-> task[w].id, model_name |-> task[w].name, info |-> NoInfo,
                          tokenizer_requests |-> task[w].tokenizer_requests,
                          model_requests |-> task[w].model_requests]]
    /\ UNCHANGED <<model, tokenizer, generator, model_name, queue, accepted, loop>>

\* The steps of the workers, with the error texts the backend may raise
LoadWith(errors) ==
    \E w \in Workers :
        \/ \E deps \in BOOLEAN : LoadBegin(w, deps)
        \/ \E ok \in BOOLEAN : LoadTokenizer(w, ok)
        \/ \E ok \in BOOLEAN, e \in errors : LoadTokenizerSlow(w, ok, e)
        \/ LoadPadToken(w)
        \/ \E ok \in BOOLEAN : LoadModel(w, ok)
        \/ \E ok \in BOOLEAN, e \in errors : LoadModelFallback(w, ok, e)
        \/ \E ok \in BOOLEAN, e \in errors : LoadToCpu(w, ok, e)
        \/ \E ok \in BOOLEAN, e \in errors : LoadPipeline(w, ok, e)
        \/ LoadFinish(w)

Load == LoadWith(BackendErrors)

\* ------------------------------------------------------- text helpers
\* Python's s[n:]
Drop(s, n) == SubSeq(s, n + 1, Len(s))

RECURSIVE LStrip(_)
LStrip(s) == IF s # <<>> /\ Head(s) \in Whitespace THEN LStrip(Tail(s)) ELSE s

RECURSIVE RStrip(_)
RStrip(s) ==
    IF s # <<>> /\ s[Len(s)] \in Whitespace THEN RStrip(SubSeq(s, 1, Len(s) - 1)) ELSE s

\* Python's str.strip()
Strip(s) == RStrip(LStrip(s))

ResponseText_KeepsPrompt(generated_text, prompt) == Strip(generated_text)

\* response_text = generated_text[len(prompt):].strip()
ResponseText(generated_text, prompt) == Strip(Drop(generated_text, Len(prompt)))

\* The backend's tokenizer, as far as the manager uses it: a token count
\* of a text (one token per character).
TokenCount(text) == Len(text)

get_status_LoadedNeedsBoth ==
    [model_name |-> model_name,
     is_loaded |-> (model # None /\ generator # None),
     is_loading |-> is_loading,
     device |-> IF model # None THEN "cpu"
                ELSE IF generator # None THEN "cpu"
                ELSE "unknown"]

\* ---------------------------------------------------- GET /status
\* ModelManager.get_status
get_status ==
    [model_name |-> model_name,
     is_loaded |-> (model # None \/ generator # None),
     is_loading |-> is_loading,
     device |-> IF model # None THEN "cpu"
                ELSE IF generator # None THEN "cpu"
                ELSE "unknown"]

Status ==
    /\ LoopFree
    /\ last' = [op |-> "status", code |-> 200, detail |-> "", body |-> get_status]
    /\ UNCHANGED <<slot, queue, workerPc, task, done, accepted, loop>>

\* ---------------------------------------------------- DELETE /undeploy
Undeploy_KeepsGenerator ==
    /\ LoopFree
    /\ IF model = None /\ generator = None
       THEN /\ last' = [op |-> "undeploy", code |-> 500, detail |-> MsgNoModelUndeploy,
                        body |-> [x |-> 0]]
            /\ UNCHANGED <<slot, queue, workerPc, task, done, accepted, loop>>
       ELSE /\ model' = None
            /\ tokenizer' = None
            /\ model_name' = None
            /\ last' = [op |-> "undeploy", code |-> 200, detail |-> MsgUndeployed,
                        body |-> [x |-> 0]]
            /\ UNCHANGED <<generator, is_loading, queue, workerPc, task, done, accepted, loop>>

Undeploy_Idempotent ==
    /\ LoopFree
    /\ model' = None
    /\ tokenizer' = None
    /\ generator' = None
    /\ model_name' = None
    /\ last' = [op |-> "undeploy", code |-> 200, detail |-> MsgUndeployed,
                body |-> [x |-> 0]]
    /\ UNCHANGED <<is_loading, queue, workerPc, task, done, accepted, loop>>

\* ModelManager.unload_model behind undeploy_model: every exception is
\* answered with a 500.
Undeploy ==
    /\ LoopFree
    /\ IF model = None /\ generator = None
       THEN /\ last' = [op |-> "undeploy", code |-> 500, detail |-> MsgNoModelUndeploy,
                        body |-> [x |-> 0]]
            /\ UNCHANGED <<slot, queue, workerPc, task, done, accepted, loop>>
       ELSE /\ model' = None
            /\ tokenizer' = None
            /\ generator' = None
            /\ model_name' = None
            /\ last' = [op |-> "undeploy", code |-> 200, detail |-> MsgUndeployed,
                        body |-> [x |-> 0]]
            /\ UNCHANGED <<is_loading, queue, workerPc, task, done, accepted, loop>>

\* ---------------------------------------------------- POST /query
QueryCheck_NoGeneratorCheck ==
    IF is_loading THEN MsgLoading
    ELSE IF model = None \/ tokenizer = None THEN MsgNotProperlyLoaded
    ELSE "ok"

QueryCheck_NoHandlesCheck ==
    IF generator = None THEN MsgNoModelQuery
    ELSE IF is_loading THEN MsgLoading
    ELSE "ok"

\* The checks of generate_response, in the order of the code; "ok" when the
\* backend is reached.
QueryCheck ==
    IF generator = None THEN MsgNoModelQuery
    ELSE IF is_loading THEN MsgLoading
    ELSE IF model = None \/ tokenizer = None THEN MsgNotProperlyLoaded
    ELSE "ok"

OutputTokens_CountsGenerated(generated_text, prompt) == TokenCount(generated_text)

\* output_tokens = len(self.tokenizer.encode(response_text))
OutputTokens(generated_text, prompt) == TokenCount(ResponseText(generated_text, prompt))

\* QueryRequest with its length fields; max_new_tokens is optional and absent
\* from the record when the caller does not send it.
DefaultMaxLength == 512
QueryRequest(prompt, max_length) == [prompt |-> prompt, max_length |-> max_length]
WithMaxNewTokens(request, n) == request @@ [max_new_tokens |-> n]

\* The arguments query_model hands to generate_response
GenerateArgs(request) == [prompt |-> request.prompt, max_length |-> request.max_length]

\* generation_kwargs handed to the pipeline with the prompt
GenerationKwargs(args) == [max_length |-> args.max_length, pad_token_id |-> "eos_token_id"]

\* str(e) of the exception a backend call raises
BackendMessage(call) == call \o " failed"

\* raise Exception(f"Generation error: {str(e)}")
GenerationError(e) == "Generation error: " \o e

QueryError_PartialResponse(detail, calls, prompt) ==
    [op |-> "query", code |-> 500, detail |-> detail,
     body |-> [calls |-> calls, input_tokens |-> TokenCount(prompt)]]

\* The answer of query_model to an exception: the status and the message
QueryError(detail, calls, prompt) ==
    [op |-> "query", code |-> 500, detail |-> detail, body |-> [calls |-> calls]]

QueryBegin_RaisesFlag(request) ==
    /\ LoopFree
    /\ IF QueryCheck # "ok"
       THEN /\ last' = QueryError(QueryCheck, <<>>, request.prompt)
            /\ loop' = loop
            /\ is_loading' = is_loading
       ELSE /\ last' = [op |-> "query_running", code |-> 0, detail |-> "",
                        body |-> [request |-> request]]
            /\ loop' = [handler |-> "query", request |-> request]
            /\ is_loading' = TRUE
    /\ UNCHANGED <<model, tokenizer, generator, model_name,
                   queue, workerPc, task, done, accepted>>

\* query_model up to the backend: the checks of generate_response.  A
\* refused query is answered at once; an admitted one occupies the event
\* loop thread, generate_response being a plain call inside the coroutine.
QueryBegin(request) ==
    /\ LoopFree
    /\ IF QueryCheck # "ok"
       THEN /\ last' = QueryError(QueryCheck, <<>>, request.prompt)
            /\ loop' = loop
       ELSE /\ last' = [op |-> "query_running", code |-> 0, detail |-> "",
                        body |-> [request |-> request]]
            /\ loop' = [handler |-> "query", request |-> request]
    /\ UNCHANGED <<slot, queue, workerPc, task, done, accepted>>

\* The rest of generate_response and the answer of query_model.  backend
\* names the backend call that raises ("none": all succeed); cont is the
\* text the pipeline generates after the echoed prompt.
QueryEnd(backend, cont) ==
    /\ loop.handler = "query"
    /\ LET request == loop.request
           prompt == request.prompt
       IN  last' =
            IF backend = "tokenize"
                THEN QueryError(GenerationError(BackendMessage(backend)),
                                <<"tokenize">>, prompt)
            ELSE IF backend = "generate"
                THEN QueryError(GenerationError(BackendMessage(backend)),
                                <<"tokenize", "generate">>, prompt)
            ELSE IF backend = "encode"
                THEN QueryError(GenerationError(BackendMessage(backend)),
                                <<"tokenize", "generate", "encode">>, prompt)
            ELSE IF model_name = None
                THEN QueryError(MsgValidationError, <<"tokenize", "generate", "encode">>, prompt)
            ELSE [op |-> "query", code |-> 200, detail |-> "",
                  body |-> [calls |-> <<"tokenize", "generate", "encode">>,
                            request |-> request,
                            generation_kwargs |-> GenerationKwargs(GenerateArgs(request)),
                            prompt |-> prompt,
                            generated_text |-> prompt \o cont,
                            response |-> ResponseText(prompt \o cont, prompt),
                            model_name |-> model_name,
                            input_tokens |-> TokenCount(prompt),
                            output_tokens |-> OutputTokens(prompt \o cont, prompt)]]
    /\ loop' = Idle
    /\ UNCHANGED <<slot, queue, workerPc, task, done, accepted>>

BackendFailures == {"none", "tokenize", "generate", "encode"}

\* The inputs of a query that can make a difference: a query refused by its
\* checks does not read the prompt, and a failed backend call returns no text.
QueryPrompts(texts) == IF QueryCheck = "ok" THEN texts ELSE {<<"a">>}
QueryConts(b, texts) == IF b = "none" THEN texts ELSE {<<>>}

\* The texts of the lifecycle specification: the empty text and one character.
ShortTexts == {<<>>, <<"a">>, <<" ">>}

QueryShortBegin ==
    \E p \in QueryPrompts(ShortTexts) : QueryBegin(QueryRequest(p, DefaultMaxLength))

QueryShortEnd ==
    \E b \in BackendFailures : \E c \in QueryConts(b, ShortTexts) : QueryEnd(b, c)

\* Queries over all texts up to the bounds, for the text-processing claims.
QueryTextBegin ==
    \E p \in QueryPrompts(Texts(MaxPrompt)) : QueryBegin(QueryRequest(p, DefaultMaxLength))

QueryTextEnd ==
    \E b \in BackendFailures : \E c \in QueryConts(b, Texts(MaxCont)) : QueryEnd(b, c)

Next ==
    \/ \E n \in ModelNames, d \in {"cpu", "auto"} : Deploy(n, d)
    \/ DeployReturn
    \/ Load
    \/ QueryShortBegin
    \/ QueryShortEnd
    \/ Status
    \/ Undeploy

Spec == Init /\ [][Next]_vars

\* A manager holding a loaded model (the state a successful deploy leaves),
\* queried with every prompt and every continuation up to the bounds.
InitLoaded ==
    /\ \E n \in ModelNames :
          /\ model = n
          /\ tokenizer = Tokenizer(n, <<"</s>">>, <<"</s>">>)
          /\ generator = n
          /\ model_name = n
    /\ is_loading = FALSE
    /\ queue = <<>>
    /\ workerPc = AllIdle
    /\ task = NoTasks
    /\ done = {}
    /\ accepted = 1
    /\ loop = Idle
    /\ last = [op |-> "init", code |-> 0, detail |-> "", body |-> [x |-> 0]]

NextText == QueryTextBegin \/ QueryTextEnd

SpecText == InitLoaded /\ [][NextText]_vars

\* A sequential client against a backend that never fails, as the test
\* scripts drive the manager: deploy, wait for the answer, query, undeploy,
\* and again.
CycleDeploy ==
    /\ last.op \in {"init", "undeploy"}
    /\ \E n \in ModelNames, d \in {"cpu", "auto"} : Deploy(n, d)

CycleLoad ==
    \E w \in Workers :
        \/ LoadBegin(w, TRUE)
        \/ LoadTokenizer(w, TRUE)
        \/ LoadPadToken(w)
        \/ LoadModel(w, TRUE)
        \/ LoadToCpu(w, TRUE, ErrPlain)
        \/ LoadPipeline(w, TRUE, ErrPlain)
        \/ LoadFinish(w)

CycleQueryBegin ==
    /\ last.op = "deploy_return"
    /\ \E p \in Texts(MaxPrompt) : QueryBegin(QueryRequest(p, DefaultMaxLength))

CycleQueryEnd == \E c \in Texts(MaxCont) : QueryEnd("none", c)

CycleUndeploy ==
    /\ last.op = "query"
    /\ Undeploy

NextCycle ==
    \/ CycleDeploy
    \/ CycleLoad
    \/ DeployReturn
    \/ CycleQueryBegin
    \/ CycleQueryEnd
    \/ CycleUndeploy

SpecCycle == Init /\ [][NextCycle]_vars

\* ------------------------------------------- length fields of a query
\* Queries on a loaded slot over the length fields of the request, with the
\* values the test scripts send.
MaxLengths == {50, 100, DefaultMaxLength}
MaxNewTokens == {20, 50}
QueryRequests(p) ==
    IF QueryCheck = "ok"
    THEN LET plain == {QueryRequest(p, n) : n \in MaxLengths}
         IN  plain \cup {WithMaxNewTokens(r, n) : r \in plain, n \in MaxNewTokens}
    ELSE {QueryRequest(p, DefaultMaxLength)}

QueryLengthsBegin ==
    \E p \in QueryPrompts(ShortTexts) : \E r \in QueryRequests(p) : QueryBegin(r)

NextLengths == QueryLengthsBegin \/ QueryShortEnd

SpecLengths == InitLoaded /\ [][NextLengths]_vars

\* ---------------------------------------------- load options of one call
\* load_model_sync called with any identifier and any caller options, as the
\* test scripts call it on a fresh manager.
NameChars == {"2", "0", "b", "B"}
Names(n) == UNION {[1..k -> NameChars] : k \in 1..n}
OptionNames == Names(MaxName) \cup ModelNames \cup {<<"7", "0", "B">>, <<"1", "7", "5", "b">>}

InitOptions ==
    /\ model = None
    /\ tokenizer = None
    /\ generator = None
    /\ model_name = None
    /\ is_loading = FALSE
    /\ \E name \in OptionNames, l8 \in BOOLEAN, l4 \in BOOLEAN,
          trust \in BOOLEAN, tok \in {None, <<"h", "f", "_", "x">>} :
            queue = <<LoadArgs(1, name, "cpu", l8, l4, trust, tok)>>
    /\ workerPc = AllIdle
    /\ task = NoTasks
    /\ done = {}
    /\ accepted = 1
    /\ loop = Idle
    /\ last = [op |-> "init", code |-> 0, detail |-> "init", body |-> [id |-> 0]]

NextOptions == Load

SpecOptions == InitOptions /\ [][NextOptions]_vars

\* ------------------------------------------------ progress of the worker
\* The lifecycle specification with the scheduling the executor gives: the
\* worker thread is not starved, and every backend call of a load returns
\* or raises, so a load step that can be taken is taken eventually.  The
\* handlers that write the slot are under no obligation to run.
LiveDeploy == Deploy(Gpt2, "cpu")
LiveLoad == LoadWith({ErrPlain})

NextLive ==
    \/ LiveDeploy
    \/ LiveLoad
    \/ Undeploy

SpecLive == Init /\ [][NextLive]_vars /\ WF_vars(LiveLoad)

\* ------------------------------------------- error texts of a failing load
\* load_model_sync failing at any of its requests with any error text of the
\* backend: short texts over a few letters, alone or followed by a word the
\* formatting looks for, and two such words in a row.
MaxError == 3
ErrorChars == {"o", "O", "m"}
ErrorWords ==
    {ModelWrapper, TokenizerWord, <<"T">> \o Tail(TokenizerWord),
     OutOfMemoryWords, <<"O", "O", "M">>, ErrPlain}
ErrorPrefixes(n) == UNION {[1..k -> ErrorChars] : k \in 0..n}
ErrorTexts ==
    {p \o w : p \in ErrorPrefixes(MaxError), w \in ErrorWords \cup {<<>>}}
        \cup {v \o <<" ">> \o w : v \in ErrorWords, w \in ErrorWords}

InitErrors ==
    /\ model = None
    /\ tokenizer = None
    /\ generator = None
    /\ model_name = None
    /\ is_loading = FALSE
    /\ \E l8 \in BOOLEAN :
            queue = <<LoadArgs(1, Gpt2, "cpu", l8, FALSE, FALSE, None)>>
    /\ workerPc = AllIdle
    /\ task = NoTasks
    /\ done = {}
    /\ accepted = 1
    /\ loop = Idle
    /\ last = [op |-> "init", code |-> 0, detail |-> "init", body |-> [id |-> 0]]

NextErrors == LoadWith(ErrorTexts)

SpecErrors == InitErrors /\ [][NextErrors]_vars

\* =================================================================== claims
SlotEmpty == model = None /\ tokenizer = None /\ generator = None
IsLoaded == get_status.is_loaded
InFlight == Len(queue) + Cardinality(Busy)
IsPrefix(p, t) == Len(p) <= Len(t) /\ SubSeq(t, 1, Len(p)) = p
AllWhitespace(t) == \A i \in 1..Len(t) : t[i] \in Whitespace

\* C1: a Deploy call made while is_loading is true is answered 400 "Model is
\* currently loading", submits no load to the executor and leaves every field
\* of the slot unchanged.
C1_DeployWhileLoadingRejected ==
    [][(is_loading /\ last'.op = "deploy")
        => (/\ last'.code = 400
            /\ last'.detail = MsgLoading
            /\ UNCHANGED <<slot, queue, accepted, loop>>)]_vars

\* C1 witness: a Deploy has just been refused while a load is running.
C1_Witness ==
    /\ last.op = "deploy" /\ last.detail = MsgLoading /\ is_loading
    /\ \E w \in Workers : workerPc[w] = "model"

C3_OneDeployInFlight == InFlight <= 1

\* C4: in the state a successful load leaves, Status reports is_loaded true
\* and is_loading false.
C4_LoadedAfterSuccess ==
    last.op = "load_ok" => (get_status.is_loaded /\ ~get_status.is_loading)

\* C5: in the state a failed load leaves, Status reports is_loading false
\* and is_loaded false.
C5_NotLoadedAfterFailure ==
    last.op = "load_failed" => (~get_status.is_loading /\ ~get_status.is_loaded)

\* C6: in the state a failed load leaves, model, tokenizer and generator are
\* absent and model_name is absent too.
C6_EmptyAfterFailure ==
    last.op = "load_failed" => (SlotEmpty /\ model_name = None)

\* C7: is_loading is true only while a load body is executing on the worker,
\* and it is false in the state every exit of a load body leaves, the
\* success exit and the failure exits alike.
C7_LoadingOnlyDuringLoad ==
    /\ is_loading => Busy # {}
    /\ last.op \in {"load_ok", "load_failed"} => ~is_loading

\* C7 witness: a load has just failed and the flag is down.
C7_Witness == last.op = "load_failed" /\ ~is_loading /\ Busy = {}

\* C8: a Query on an empty slot fails with "No model is currently loaded" and
\* makes no backend call.
C8_QueryOnEmptySlot ==
    (last.op = "query" /\ SlotEmpty)
        => (last.code # 200 /\ last.detail = MsgNoModelQuery /\ last.body.calls = <<>>)

\* C8 witness: a Query has just been refused on an empty slot.
C8_Witness == last.op = "query" /\ SlotEmpty /\ last.detail = MsgNoModelQuery

\* C9: a Query made while is_loading is true fails with "Model is currently
\* loading".
C9_QueryWhileLoading ==
    (last.op = "query" /\ is_loading) => last.detail = MsgLoading

\* C10 as stated: the response of a successful Query with a non-empty prompt
\* does not start with the prompt.
C10_Original ==
    (last.op = "query" /\ last.code = 200 /\ last.body.prompt # <<>>)
        => ~IsPrefix(last.body.prompt, last.body.response)

\* C10 amended: the response of a successful Query is the backend's text
\* after its first len(prompt) characters (the echoed prompt) with leading and
\* trailing whitespace removed: the echo is removed exactly once, and nothing
\* but whitespace is removed from the continuation.
C10_ResponseIsStrippedContinuation ==
    (last.op = "query" /\ last.code = 200)
        => LET p == last.body.prompt
               g == last.body.generated_text
               r == last.body.response
           IN  /\ IsPrefix(p, g)
               /\ \E i \in Len(p)..Len(g) : \E j \in i..Len(g) :
                     /\ r = SubSeq(g, i + 1, j)
                     /\ AllWhitespace(SubSeq(g, Len(p) + 1, i))
                     /\ AllWhitespace(SubSeq(g, j + 1, Len(g)))
               /\ r # <<>> => (r[1] \notin Whitespace /\ r[Len(r)] \notin Whitespace)

\* C10 witness: a successful Query whose continuation had whitespace on both
\* sides of a non-empty response.
C10_Witness ==
    /\ last.op = "query" /\ last.code = 200
    /\ last.body.prompt # <<>>
    /\ last.body.response # <<>>
    /\ Len(last.body.generated_text)
         >= Len(last.body.prompt) + Len(last.body.response) + 2

SlotLoaded == model # None /\ tokenizer # None /\ generator # None

\* C11: an Undeploy on an empty slot fails with "No model is currently
\* loaded" and changes nothing; an Undeploy on a loaded slot succeeds; and an
\* Undeploy that directly follows a successful Undeploy fails with "No model
\* is currently loaded" (it is not a no-op that succeeds again).
C11_UndeployNotIdempotent ==
    [][last'.op = "undeploy"
        => (/\ SlotEmpty => (/\ last'.code # 200
                             /\ last'.detail = MsgNoModelUndeploy
                             /\ UNCHANGED <<slot, queue, accepted, loop>>)
            /\ SlotLoaded => last'.code = 200
            /\ (last.op = "undeploy" /\ last.code = 200)
                 => (last'.code # 200 /\ last'.detail = MsgNoModelUndeploy))]_vars

\* C11 witness: an Undeploy has just failed on a slot that an earlier
\* Undeploy emptied (model_name is cleared by nothing else once a Deploy was
\* accepted).
C11_Witness ==
    /\ last.op = "undeploy" /\ last.detail = MsgNoModelUndeploy
    /\ SlotEmpty /\ model_name = None /\ accepted > 0
    /\ ~is_loading /\ Busy = {} /\ \E f \in done : f.result = "ok"

\* C12: in the state a successful Undeploy leaves, model, tokenizer,
\* generator and model_name are absent, the slot equals the slot of process
\* start, and Status reports is_loaded false.
C12_EmptyAfterUndeploy ==
    (last.op = "undeploy" /\ last.code = 200)
        => (/\ SlotEmpty /\ model_name = None
            /\ slot = <<None, None, None, None, FALSE>>
            /\ ~get_status.is_loaded)

\* C13: with a backend that never fails and a client that issues Deploy,
\* Query, Undeploy one after the other, every step succeeds: the Deploy is
\* accepted and answered 200 with the slot loaded, every Query is answered
\* 200, the Undeploy is answered 200 and leaves the slot of process start, in
\* which a Deploy would pass its checks again; this holds in every cycle.
C13_CycleSucceeds ==
    /\ last.op # "load_failed"
    /\ last.op = "deploy" => last.code # 400
    /\ last.op = "deploy_return" => (last.code = 200 /\ SlotLoaded /\ ~is_loading)
    /\ last.op = "query" => last.code = 200
    /\ last.op = "undeploy"
         => (/\ last.code = 200
             /\ slot = <<None, None, None, None, FALSE>>
             /\ queue = <<>> /\ Busy = {}
             /\ DeployCheck = "ok")

\* C13 witness: the Undeploy of a second complete cycle has succeeded.
C13_Witness == last.op = "undeploy" /\ last.code = 200 /\ accepted >= 2

\* C14: in every state in which no load is in progress, model, tokenizer and
\* generator are either all present or all absent.
C14_AllOrNothing ==
    (~is_loading /\ Busy = {}) => (SlotEmpty \/ SlotLoaded)

\* C15: in every state in which is_loading is false, model_name is present
\* if and only if a model is loaded.
C15_NameIffLoaded ==
    ~is_loading => ((model_name # None) <=> IsLoaded)

C17_PreconditionViolationsAreClientErrors ==
    /\ (last.op = "query" /\ last.detail \in {MsgNoModelQuery, MsgLoading})
            => last.code \in 400..499
    /\ (last.op = "undeploy" /\ last.detail = MsgNoModelUndeploy)
            => last.code \in 400..499
    /\ (last.op = "query"
            /\ \E b \in BackendFailures \ {"none"} :
                  last.detail = GenerationError(BackendMessage(b))) => last.code = 500

\* C18: the output_tokens of a successful Query is the token count of the
\* returned response text alone, so it does not depend on the prompt or on
\* input_tokens.
C18_OutputTokensOfResponse ==
    (last.op = "query" /\ last.code = 200) =>
        last.body.output_tokens = TokenCount(last.body.response)

C18_Witness ==
    /\ last.op = "query" /\ last.code = 200
    /\ last.body.input_tokens = 2
    /\ last.body.response = <<"a">>
    /\ last.body.generated_text # last.body.prompt \o last.body.response
    /\ last.body.output_tokens = 1

\* The length limit the backend receives with a generation request
LengthLimit(kwargs) ==
    IF "max_new_tokens" \in DOMAIN kwargs THEN kwargs.max_new_tokens ELSE kwargs.max_length

\* C19: when a query supplies max_new_tokens, the generation parameters
\* handed to the backend carry that value as the length limit in place of
\* max_length.
C19_MaxNewTokensOverrides ==
    (last.op = "query" /\ last.code = 200
        /\ "max_new_tokens" \in DOMAIN last.body.request)
    => LengthLimit(last.body.generation_kwargs) = last.body.request.max_new_tokens

\* C20: at most one load body is executing at any time, whatever the
\* interleaving of HTTP requests: the pool has one worker, so a load
\* submitted while another runs waits in the queue.
C20_OneLoadBodyAtATime == Cardinality(Busy) <= 1

C20_Witness ==
    /\ Cardinality(Busy) = 1
    /\ queue # <<>>
    /\ \E w \in Busy : task[w].id = 1 /\ Head(queue).id = 2

\* C21: every Status call served while a Deploy is in progress (accepted,
\* its load not yet finished) reports is_loading true.
C21_LoadingWhileDeployInProgress ==
    (last.op = "status" /\ InFlight > 0) => last.body.is_loading

\* C22: an Undeploy served while a load is in progress (is_loading true) is
\* refused with the no-model-loaded error, changes nothing in the slot and
\* leaves the running load as it was, at whichever step of the load it comes.
C22_UndeployRefusedWhileLoading ==
    [][(is_loading /\ last'.op = "undeploy")
        => /\ last'.detail = MsgNoModelUndeploy
           /\ UNCHANGED <<slot, queue, workerPc, task, done>>]_vars

\* C23 as stated: Query and Undeploy are not serialized, an Undeploy can
\* release the handles while a Query that has passed its checks is still
\* using them.  Undeploy has no condition of its own, so such an interleaving
\* exists exactly if Undeploy can be taken in the states where a Query is
\* between its checks and its end.
C23_Original == loop.handler = "query" => ENABLED Undeploy

\* C23, amended: a Query that has passed its checks holds the event loop
\* thread until it ends, so no Undeploy runs in between and the three
\* handles it checked are still present when it finishes.
C23_QueryKeepsItsHandles ==
    loop.handler = "query" => (SlotLoaded /\ ~ENABLED Undeploy)

C23_Witness ==
    /\ loop.handler = "query"
    /\ last.op = "query_running"
    /\ SlotLoaded /\ ~is_loading

\* C24: while a load is running on the worker the dispatcher is not
\* stalled: in every such state a Status call can be served, and a Deploy or
\* a Query arriving then is served too and is answered with a rejection.
C24_DispatcherNotStalled ==
    Busy # {} =>
        /\ ENABLED Status
        /\ ENABLED (\E n \in ModelNames, d \in {"cpu", "auto"} : Deploy(n, d))
        /\ ENABLED QueryShortBegin
        /\ DeployCheck # "ok"
        /\ QueryCheck # "ok"

\* C25: within one load the tokenizer is requested at most twice; the second
\* request is made in slow mode (use_fast=False) and only after the first
\* has failed; when it succeeds the load goes on to the model, and when it
\* fails the load ends with the error, without a third request.
C25_TokenizerAtMostTwice ==
    /\ \A w \in Workers :
          /\ task[w].tokenizer_requests <= 2
          /\ workerPc[w] = "tokenizer" => task[w].tokenizer_requests = 0
          /\ workerPc[w] = "tokenizer_slow" => task[w].tokenizer_requests = 1
    /\ (last.op = "worker" /\ last.detail \in {"tokenizer", "tokenizer_failed"})
          => /\ last.body.tokenizer_requests = 1
             /\ "use_fast" \notin DOMAIN last.body.info
    /\ (last.op = "worker" /\ last.detail = "tokenizer_slow")
          => /\ last.body.tokenizer_requests = 2
             /\ last.body.info.use_fast = FALSE
             /\ \E w \in Workers : task[w].id = last.body.id /\ workerPc[w] = "pad_token"
    /\ (last.op = "load_failed" /\ last.detail = "tokenizer")
          => /\ last.body.tokenizer_requests = 2
             /\ last.body.info.use_fast = FALSE
             /\ \A w \in Workers : task[w].id # last.body.id
    /\ last.op = "load_ok" => last.body.tokenizer_requests \in {1, 2}

C25_Witness ==
    /\ last.op = "worker" /\ last.detail = "model"
    /\ last.body.tokenizer_requests = 2
    /\ model = last.body.model_name

\* The minimal option set of the second model request: the caller's
\* trust_remote_code flag, no device map, and the access token if one is given
MinimalOptions(kwargs, t) ==
    /\ DOMAIN kwargs = {"trust_remote_code", "device_map"}
                          \cup (IF t.hf_token # None THEN {"token"} ELSE {})
    /\ kwargs.trust_remote_code = t.trust_remote_code
    /\ kwargs.device_map = None
    /\ t.hf_token # None => kwargs.token = t.hf_token

\* C26: within one load the model weights are requested at most twice; the
\* second request is made only after the first has failed and carries the
\* minimal option set; when it succeeds the load continues as after a
\* successful first request, and when it fails the load ends with the error.
C26_ModelAtMostTwice ==
    /\ \A w \in Workers :
          /\ task[w].model_requests <= 2
          /\ workerPc[w] = "model" => task[w].model_requests = 0
          /\ workerPc[w] = "model_fallback" => task[w].model_requests = 1
    /\ (last.op = "worker" /\ last.detail \in {"model", "model_failed"})
          => last.body.model_requests = 1
    /\ (last.op = "worker" /\ last.detail \in {"model", "model_fallback"})
          => \E w \in Workers :
                /\ task[w].id = last.body.id
                /\ workerPc[w] = "to_cpu"
                /\ model = task[w].name
    /\ (last.op = "worker" /\ last.detail = "model_fallback")
          => /\ last.body.model_requests = 2
             /\ \E w \in Workers :
                   task[w].id = last.body.id /\ MinimalOptions(last.body.info, task[w])
    /\ (last.op = "load_failed" /\ last.detail = "model")
          => /\ last.body.model_requests = 2
             /\ DOMAIN last.body.info \subseteq {"trust_remote_code", "device_map", "token"}
             /\ \A w \in Workers : task[w].id # last.body.id
    /\ last.op = "load_ok" => last.body.model_requests \in {1, 2}

C26_Witness ==
    /\ last.op = "worker" /\ last.detail = "model_fallback"
    /\ last.body.model_requests = 2
    /\ is_large_model(last.body.model_name)
    /\ "token" \in DOMAIN last.body.info
    /\ last.body.info.trust_remote_code = FALSE
    /\ model = last.body.model_name

\* C27: a Query whose backend call (tokenize, generate or the counting
\* encode) raises is answered with the generation error carrying the
\* message of that exception, and the answer holds no response text and no
\* token counts.
C27_BackendFailureIsGenerationError ==
    (last.op = "query" /\ last.code # 200 /\ last.body.calls # <<>>
        /\ last.detail # MsgValidationError)
    => /\ last.detail
            = GenerationError(BackendMessage(last.body.calls[Len(last.body.calls)]))
       /\ last.code = 500
       /\ DOMAIN last.body = {"calls"}

C27_Witness ==
    /\ last.op = "query" /\ last.code = 500
    /\ last.body.calls = <<"tokenize", "generate">>
    /\ last.detail = "Generation error: generate failed"
    /\ SlotLoaded /\ loop = Idle

\* C28: Status is a pure read without a failure path: every Status call is
\* answered with a result, changes no field of the slot (nor anything else
\* of the manager), and reports is_loading as the flag is and is_loaded
\* true exactly when the model handle or the generator is present.
C28_StatusIsPureRead ==
    [][last'.op = "status"
        => /\ UNCHANGED <<slot, queue, workerPc, task, done, accepted, loop>>
           /\ last'.code = 200
           /\ last'.body.is_loading = is_loading
           /\ last'.body.is_loaded = (model # None \/ generator # None)
           /\ last'.body.model_name = model_name]_vars

C28_Witness ==
    /\ last.op = "status" /\ last.code = 200
    /\ last.body.is_loaded /\ last.body.is_loading
    /\ model # None /\ generator = None

\* C29: the padding step of a load aliases a missing padding token to the
\* end-of-sequence token and leaves a padding token of the backend as it
\* is; so after a successful load the tokenizer has a padding token
\* whenever it has an end-of-sequence token.
C29_PadTokenAliasedToEos ==
    /\ (last.op = "worker" /\ last.detail = "pad_token")
          => /\ pad_token(tokenizer) = IF last.body.info.pad_token = None
                                       THEN last.body.info.eos_token
                                       ELSE last.body.info.pad_token
             /\ eos_token(tokenizer) = last.body.info.eos_token
    /\ (last.op = "load_ok" /\ tokenizer # None /\ eos_token(tokenizer) # None)
          => pad_token(tokenizer) # None

C29_Witness ==
    /\ last.op = "load_ok"
    /\ SlotLoaded
    /\ tokenizer[1] = last.body.model_name
    /\ pad_token(tokenizer) = <<"</s>">>
    /\ eos_token(tokenizer) = <<"</s>">>

\* C30: the message of a failed load begins with the error text of the
\* backend; a text that mentions a tokenizer gets the alternative-models
\* block, any other text that mentions out-of-memory gets the memory
\* block, every other text is the whole message, and no message carries
\* both blocks.
C30_ErrorMessageOneBlock ==
    last.op = "load_failed" =>
        LET e == last.body.error
            m == last.body.message
            aboutTokenizer ==
                Contains(e, ModelWrapper) \/ Contains(ToLower(e), TokenizerWord)
            aboutMemory ==
                Contains(ToLower(e), OutOfMemoryWords) \/ Contains(ToLower(e), OomWord)
        IN  /\ IsPrefix(e, m)
            /\ aboutTokenizer => m = e \o TokenizerSuggestions
            /\ (~aboutTokenizer /\ aboutMemory) => m = e \o MemorySuggestions
            /\ (~aboutTokenizer /\ ~aboutMemory) => m = e
            /\ Len(m) <= Len(e) + 1

\* C30 witness: a load failed with a text that mentions both a tokenizer
\* and out-of-memory, and its message carries the tokenizer block only.
C30_Witness ==
    /\ last.op = "load_failed"
    /\ last.body.error = TokenizerWord \o <<" ">> \o OutOfMemoryWords
    /\ last.body.message = last.body.error \o TokenizerSuggestions

\* C31: a load body never starts while the slot holds a model or a
\* generator, so a loaded model is replaced only after an Undeploy.
C31_LoadStartsOnEmptySlot ==
    (last.op = "worker" /\ last.detail = "begin")
        => (model = None /\ generator = None)

\* C32: the model_name of a Status answer that reports a loaded model, and
\* of every successful Query, is the identifier of the Deploy whose load
\* wrote the handles the slot holds.
C32_NameOfTheLoadedModel ==
    /\ (last.op = "status" /\ last.body.is_loaded)
          => /\ model # None => last.body.model_name = model
             /\ generator # None => last.body.model_name = generator
    /\ (last.op = "query" /\ last.code = 200)
          => /\ last.body.model_name = model
             /\ last.body.model_name = generator

\* C33: during a load that started from an empty slot (the first Deploy
\* the manager accepted), no Status answer reports is_loaded together with
\* is_loading.
C33_NotLoadedWhileLoading ==
    (last.op = "status" /\ accepted = 1)
        => ~(last.body.is_loaded /\ last.body.is_loading)

\* C34: after a failed load of the only Deploy accepted so far, no other
\* load waiting or running, the checks of a new Deploy pass.
C34_DeployAcceptedAfterFailure ==
    (last.op = "load_failed" /\ accepted = 1) => DeployCheck = "ok"

C36_BackendOnlyOnCompleteSlot ==
    [][/\ (loop.handler = "idle" /\ last'.op \in {"query", "query_running"})
            => IF generator # None /\ model # None /\ tokenizer # None /\ ~is_loading
               THEN last'.op = "query_running" /\ loop'.handler = "query"
               ELSE /\ last'.op = "query" /\ last'.code = 500
                    /\ last'.body.calls = <<>>
                    /\ loop'.handler = "idle"
       /\ (last'.op = "query" /\ last'.body.calls # <<>>)
            => loop.handler = "query"]_vars

\* C36 witness: a Query refused without a backend call on a slot that holds
\* a generator but neither model nor tokenizer.
C36_Witness ==
    /\ last.op = "query" /\ last.code = 500
    /\ last.detail = MsgNotProperlyLoaded
    /\ last.body.calls = <<>>
    /\ generator # None /\ model = None /\ tokenizer = None /\ ~is_loading

\* C37: the steps of one load are ordered.  The padding step follows a
\* tokenizer request that delivered the tokenizer of this load; the first
\* model request follows the padding step, the fallback request the failed
\* first one; the pipeline is built only after a model request delivered
\* the model of this load and it was moved to the CPU; the generator is
\* bound by the pipeline step alone; and a load that fails at the tokenizer
\* has made both tokenizer requests and no model request.
C37_LoadStepsOrdered ==
    [][/\ \A w \in Workers :
            /\ (workerPc'[w] # workerPc[w] /\ workerPc'[w] = "pad_token")
                  => /\ workerPc[w] \in {"tokenizer", "tokenizer_slow"}
                     /\ tokenizer'[1] = task[w].name
            /\ (workerPc'[w] # workerPc[w] /\ workerPc'[w] = "model")
                  => /\ workerPc[w] = "pad_token"
                     /\ tokenizer # None
                     /\ task[w].tokenizer_requests \in {1, 2}
                     /\ task[w].model_requests = 0
            /\ (workerPc'[w] # workerPc[w] /\ workerPc'[w] = "model_fallback")
                  => workerPc[w] = "model"
            /\ (workerPc'[w] # workerPc[w] /\ workerPc'[w] = "to_cpu")
                  => /\ workerPc[w] \in {"model", "model_fallback"}
                     /\ model' = task[w].name
            /\ (workerPc'[w] # workerPc[w] /\ workerPc'[w] = "pipeline")
                  => /\ workerPc[w] = "to_cpu"
                     /\ model # None
       /\ (generator' # generator /\ generator' # None)
            => \E w \in Workers :
                  /\ workerPc[w] = "pipeline"
                  /\ task[w].model_requests \in {1, 2}
       /\ (last'.op = "load_failed" /\ last'.detail = "tokenizer")
            => /\ last'.body.tokenizer_requests = 2
               /\ last'.body.model_requests = 0
               /\ model' = model]_vars

\* C37 witness: the generator has just been bound by a load that needed
\* both fallbacks.
C37_Witness ==
    /\ last.op = "worker" /\ last.detail = "pipeline"
    /\ last.body.tokenizer_requests = 2 /\ last.body.model_requests = 2
    /\ generator = last.body.model_name
    /\ model = last.body.model_name
    /\ tokenizer # None

\* A load by its id: waiting in the executor queue, in its body, and at
\* its end (the success exit or the except clause) with the flag down.
Queued(id) == \E i \in DOMAIN queue : queue[i].id = id
Running(id) == \E w \in Workers : workerPc[w] # "idle" /\ task[w].id = id
Ended(id) ==
    /\ last.op \in {"load_ok", "load_failed"}
    /\ last.body.id = id
    /\ ~Queued(id) /\ ~Running(id)
    /\ ~is_loading

\* C38: under fair scheduling of the worker, every load submitted to the
\* executor eventually runs to its end, and is_loading is false again then.
C38_EveryLoadCompletes == \A id \in 1..MaxDeploys : Queued(id) ~> Ended(id)

\* C38 witness: the load of a second accepted Deploy, which had to wait in
\* the executor queue, is over and the flag is down.
C38_Witness == accepted = 2 /\ Ended(2)

\* C39: no step of a Query, refused, failed or answered, changes model,
\* tokenizer, generator, model_name or is_loading.
C39_QueryLeavesSlot ==
    [][last'.op \in {"query", "query_running"} => UNCHANGED slot]_vars

\* C39 witness: a Query answered 200 on a loaded slot whose handles and
\* name are those of the load that filled it.
C39_Witness ==
    /\ last.op = "query" /\ last.code = 200
    /\ SlotLoaded /\ ~is_loading
    /\ model = generator /\ model_name = model
    /\ last.body.model_name = model_name
====
